---- MODULE Spec2Model ----
(***************************************************************************)
(* A model of my_shell.c: the input loop of main, the classifier           *)
(* getCommandType, the dispatcher processCommand, the splitter             *)
(* handleMultipleCommands and the fork/exec/wait executor executeCommand,  *)
(* together with the child processes the executor creates.                 *)
(*                                                                         *)
(* A line is represented by the token sequence processInput leaves in      *)
(* args.  Positions in the batch file are counted in lines: blanks are     *)
(* ignored by the tokenizer, so the lines of a file can always be padded   *)
(* to one common byte length, and the file is taken to fit one stdio       *)
(* buffer.  Standard input is taken to be a terminal or a pipe (no file    *)
(* offset to move).  What a line holds is chosen when it is tokenized.     *)
(***************************************************************************)
EXTENDS Integers, Sequences, FiniteSets, TLC

\* ------------------------------------------------------------------ bounds
MaxLen == 3          \* tokens per input line
MaxLines == 2        \* lines of the batch file
MaxChars == 4        \* characters of the input texts that are enumerated in full
MaxOver == 2         \* how far the long input lines go past a limit of the code

\* ------------------------------------------------------- program constants
MAX_CMD_LENGTH == 512
MAX_NUM_CMDS == 20
EXIT_FAILURE == 1

NULL == "NULL"            \* the null pointer
GARBAGE == "?"            \* a non-null value read from uninitialised memory
NoType == -1              \* commandType before any line was classified

Words == {"ls", "quit", "author"}
Delimiters == {";", "&&"}
Tokens == Words \cup Delimiters

Lines == UNION {[1..n -> Tokens] : n \in 0..MaxLen}

\* What the shell writes, each message as its lines of text.
PROMPT == << "myshell> " >>
USAGE == << "Usage: ./my_shell or ./my_shell <batchfile>", "" >>
AUTHOR == << "", "giannis-mel", "meleziadisgiannis@gmail.com", "", "" >>
FORK_FAILED == << "Fork failed: " >>
TERRIBLY_WRONG == << "Error: Something is terribly wrong in my code.", "" >>
UNRECOGNIZED == << "Error: Unrecognized command type.", "" >>

builtinCommands ==
  << [name |-> "quit", func |-> "quitShell"],
     [name |-> "author", func |-> "displayAuthor"] >>

numOfBuiltinCommands == Len(builtinCommands)

VARIABLES
  argc,        \* main's argc: 1 interactive, 2 batch, more: usage
  fileOpens,   \* whether fopen(argv[1], "r") succeeds
  pc,          \* where the shell process is
  stdinEOF,    \* standard input has reached end-of-input
  nLines,      \* number of lines of the batch file
  fdOff,       \* offset of the batch file's open file description (shared with children)
  bufEnd,      \* file position of the end of the shell's stdio buffer
  rdPtr,       \* file position of the shell's stdio read pointer
  args,        \* main's args, as left by processInput
  commandType, \* processCommand's commandType
  delimiter,   \* handleMultipleCommands' parameter
  i, j,        \* handleMultipleCommands' indices
  commands,    \* handleMultipleCommands' local array
  argv,        \* the vector executeCommand was called with
  ret,         \* who called executeCommand: "main" (processCommand) or "hmc"
  children,    \* the child processes not yet reaped by wait
  exitStatus,  \* the shell's exit status once pc = "exited"
  execLog,     \* history: the vectors given to executeCommand for the current line
  failed,      \* history: a fork or an exec failed for the current line
  written,     \* history: what the shell wrote to its streams since it last read a line
  text,        \* character level: the characters of the batch file
  pos,         \* character level: how many of them fgets has consumed
  line,        \* character level: main's buffer line, as left by fgets
  argsMem,     \* character level: main's array args, one pointer per slot
  seen,        \* character level: the token sequence processCommand is given
  argsTop,     \* history: the highest index processInput wrote in its last call
  calls,       \* history: number of calls of processCommand
  deliveries,  \* history: lines fgets delivered from the batch file (saturating)
  inOrder      \* history: the k-th delivery was file line k, for every delivery

vars == << argc, fileOpens, pc, stdinEOF, nLines, fdOff, bufEnd, rdPtr, args,
           commandType, delimiter, i, j, commands, argv, ret, children,
           exitStatus, execLog, failed, written, deliveries, inOrder,
          text, pos, line, argsMem, seen, argsTop, calls >>

Interactive == argc = 1
Batch == argc = 2 /\ fileOpens

NoCommands == [k \in 0..(MAX_NUM_CMDS - 1) |-> NULL]

\* args[k] as C reads it: 0-based, the terminator included.
At(a, k) == IF k < Len(a) THEN a[k + 1] ELSE NULL

\* ------------------------------------------------------------- classifier
\* Mutant of isBuiltin: the comparison is written strcmp(...) instead of
\* strcmp(...) == 0, true when arg differs from a name of the table.
isBuiltinNoEqualsZero(arg) ==
  \E k \in 1..numOfBuiltinCommands : arg # builtinCommands[k].name

isBuiltin(arg) ==
  \E k \in 1..numOfBuiltinCommands : arg = builtinCommands[k].name

RECURSIVE ScanDelimiters(_, _)
ScanDelimiters(a, k) ==
  IF At(a, k) = NULL THEN 1
  ELSE IF At(a, k) = "&&" THEN 3
  ELSE IF At(a, k) = ";" THEN 2
  ELSE ScanDelimiters(a, k + 1)

\* Mutant of getCommandType: "&&" anywhere wins over ";", as the function's
\* comment words it ("contains '&&' (returns 3), contains ';' (returns 2)").
getCommandTypeByContains(a) ==
  IF At(a, 0) = NULL THEN 0
  ELSE IF At(a, 1) = NULL /\ isBuiltin(At(a, 0)) THEN 4
  ELSE IF \E k \in 1..Len(a) : a[k] = "&&" THEN 3
  ELSE IF \E k \in 1..Len(a) : a[k] = ";" THEN 2
  ELSE 1

\* Mutant of getCommandType: the test for a built-in looks at the first
\* token only, without the test that it is the only one.
getCommandTypeFirstToken(a) ==
  IF At(a, 0) = NULL THEN 0
  ELSE IF isBuiltin(At(a, 0)) THEN 4
  ELSE ScanDelimiters(a, 0)

getCommandType(a) ==
  IF At(a, 0) = NULL THEN 0
  ELSE IF At(a, 1) = NULL /\ isBuiltin(At(a, 0)) THEN 4
  ELSE ScanDelimiters(a, 0)

\* --------------------------------------------------------------- splitter
\* The loop's test of line 86.
HmcIsCall(a, d, k) == At(a, k) = d \/ At(a, k + 1) = NULL

\* The store of line 87.
HmcTerminate(a, k, m, cmds) ==
  [cmds EXCEPT ![m] = IF At(a, k + 1) = NULL THEN At(a, k) ELSE NULL]

\* The store of line 91.
HmcAppend(a, k, m, cmds) == [cmds EXCEPT ![m] = At(a, k)]

\* The vector a callee reads from a char** : the entries up to the first
\* null pointer.  An entry never written holds whatever the stack held; the
\* vector is cut after the first such non-null entry.
RECURSIVE ArgVector(_, _)
ArgVector(cmds, k) ==
  IF k >= MAX_NUM_CMDS THEN << GARBAGE >>
  ELSE IF cmds[k] = NULL THEN << >>
  ELSE IF cmds[k] = GARBAGE THEN << GARBAGE >>
  ELSE << cmds[k] >> \o ArgVector(cmds, k + 1)

\* The local array at function entry: never initialised.  Only the first
\* unwritten entry a callee reaches decides the vector, so one value g
\* stands for the stack's content.
UninitCommands(g) == [k \in 0..(MAX_NUM_CMDS - 1) |-> g]

\* The whole loop of handleMultipleCommands as a function: the vectors it
\* hands to executeCommand, in order.
RECURSIVE SplitterCalls(_, _, _, _, _)
SplitterCalls(a, d, k, m, cmds) ==
  IF At(a, k) = NULL THEN << >>
  ELSE IF HmcIsCall(a, d, k)
       THEN << ArgVector(HmcTerminate(a, k, m, cmds), 0) >>
            \o SplitterCalls(a, d, k + 1, 0, HmcTerminate(a, k, m, cmds))
       ELSE SplitterCalls(a, d, k + 1, m + 1, HmcAppend(a, k, m, cmds))

\* ------------------------------------------------------------------- Init
Init ==
  /\ argc \in 1..3
  /\ fileOpens \in BOOLEAN
  /\ (argc # 2 => fileOpens = FALSE)
  /\ nLines \in 0..MaxLines
  /\ (~Batch => nLines = 0)
  /\ pc = "main"
  /\ stdinEOF = FALSE
  /\ fdOff = 0 /\ bufEnd = 0 /\ rdPtr = 0
  /\ args = << >>
  /\ commandType = NoType
  /\ delimiter = NULL
  /\ i = 0 /\ j = 0
  /\ commands = NoCommands
  /\ argv = << >>
  /\ ret = "main"
  /\ children = << >>
  /\ exitStatus = 0
  /\ execLog = << >>
  /\ failed = FALSE
  /\ written = {}
  /\ deliveries = 0
  /\ inOrder = TRUE
  /\ text = << >> /\ pos = 0 /\ line = << >>
  /\ argsMem = << >> /\ seen = << >> /\ argsTop = 0 /\ calls = 0

\* ------------------------------------------------------------------- main
fileVars == << nLines, fdOff, bufEnd, rdPtr, deliveries, inOrder >>
lineVars == << args, commandType, execLog, failed >>
hmcVars == << delimiter, i, j, commands >>
inputVars == << text, pos, line, argsMem, seen, argsTop, calls >>
envVars == << argc, fileOpens, inputVars >>

\* The top of the loop that main is in.
LoopHead == IF Interactive THEN "prompt" ELSE "fgets"

MainInteractive ==
  /\ pc = "main" /\ argc = 1
  /\ pc' = "prompt"
  /\ UNCHANGED << envVars, stdinEOF, fileVars, lineVars, hmcVars, argv, ret,
                  children, exitStatus, written >>

MainBatch ==
  /\ pc = "main" /\ argc = 2 /\ fileOpens
  /\ pc' = "fgets"
  /\ UNCHANGED << envVars, stdinEOF, fileVars, lineVars, hmcVars, argv, ret,
                  children, exitStatus, written >>

\* Mutant of MainUsage: a bad command line falls into the interactive loop.
MainUsageEntersLoop ==
  /\ pc = "main" /\ argc # 1 /\ ~(argc = 2 /\ fileOpens)
  /\ written' = written \cup {USAGE}
  /\ pc' = "prompt"
  /\ UNCHANGED << envVars, stdinEOF, fileVars, lineVars, hmcVars, argv, ret,
                  children, exitStatus >>

\* Neither loop applies: printf of the usage message, return 0.
MainUsage ==
  /\ pc = "main" /\ argc # 1 /\ ~(argc = 2 /\ fileOpens)
  /\ written' = written \cup {USAGE}
  /\ pc' = "exited" /\ exitStatus' = 0
  /\ UNCHANGED << envVars, stdinEOF, fileVars, lineVars, hmcVars, argv, ret,
                  children >>

Prompt ==
  /\ pc = "prompt"
  /\ written' = written \cup {PROMPT}
  /\ pc' = "fgets"
  /\ UNCHANGED << envVars, stdinEOF, fileVars, lineVars, hmcVars, argv, ret,
                  children, exitStatus >>

\* fgets on standard input delivers a line into the buffer line.  The tokens
\* args held pointed into that buffer and are gone with its old content.
InteractiveRead ==
  /\ pc = "fgets" /\ Interactive /\ ~stdinEOF
  /\ args' = << >>
  /\ commandType' = NoType /\ execLog' = << >> /\ failed' = FALSE
  /\ written' = {}
  /\ pc' = "processInput"
  /\ UNCHANGED << envVars, stdinEOF, fileVars, hmcVars, argv, ret, children,
                  exitStatus >>

\* Mutant of InteractiveReadFails: a failed read ends the loop (break; return 0).
InteractiveReadFailsBreaks ==
  /\ pc = "fgets" /\ Interactive
  /\ stdinEOF' = TRUE
  /\ pc' = "exited" /\ exitStatus' = 0
  /\ UNCHANGED << envVars, fileVars, lineVars, hmcVars, argv, ret, children,
                  written >>

\* fgets on standard input fails (end-of-input, or an error): continue.
InteractiveReadFails ==
  /\ pc = "fgets" /\ Interactive
  /\ stdinEOF' \in (IF stdinEOF THEN {TRUE} ELSE BOOLEAN)
  /\ pc' = "prompt"
  /\ UNCHANGED << envVars, fileVars, lineVars, hmcVars, argv, ret, children,
                  exitStatus, written >>

\* fgets on the batch file: the next line of the stdio buffer, after
\* refilling the buffer from the file description's offset when it is used up.
BatchRead ==
  /\ pc = "fgets" /\ Batch
  /\ \/ /\ rdPtr < bufEnd
        /\ rdPtr' = rdPtr + 1
        /\ UNCHANGED << bufEnd, fdOff >>
     \/ /\ rdPtr >= bufEnd /\ fdOff < nLines
        /\ rdPtr' = fdOff + 1
        /\ bufEnd' = nLines
        /\ fdOff' = nLines
  /\ deliveries' = IF deliveries > nLines THEN deliveries ELSE deliveries + 1
  /\ inOrder' = (inOrder /\ rdPtr' = deliveries + 1)
  /\ args' = << >>
  /\ commandType' = NoType /\ execLog' = << >> /\ failed' = FALSE
  /\ written' = {}
  /\ pc' = "processInput"
  /\ UNCHANGED << envVars, stdinEOF, nLines, hmcVars, argv, ret, children,
                  exitStatus >>

\* processInput: args becomes the token sequence of the line just read.
\* What the line holds is the input's choice, made here.
processInput ==
  /\ pc = "processInput"
  /\ \E tokens \in Lines : args' = tokens
  /\ pc' = "processCommand"
  /\ UNCHANGED << envVars, stdinEOF, fileVars, commandType, execLog, failed,
                  written, hmcVars, argv, ret, children, exitStatus >>

\* fgets on the batch file returns NULL: fclose, return 0.
BatchEOF ==
  /\ pc = "fgets" /\ Batch
  /\ rdPtr >= bufEnd /\ fdOff >= nLines
  /\ pc' = "exited" /\ exitStatus' = 0
  /\ UNCHANGED << envVars, stdinEOF, fileVars, lineVars, hmcVars, argv, ret,
                  children, written >>

\* --------------------------------------------------------- processCommand
BackToLoop ==
  /\ pc' = LoopHead
  /\ delimiter' = NULL /\ i' = 0 /\ j' = 0 /\ commands' = NoCommands
  /\ argv' = << >> /\ ret' = "main"

\* Mutant of DispatchEmpty: case 0 falls through to case 1 (no break).
DispatchEmptyFallsThrough ==
  /\ pc = "processCommand" /\ getCommandType(args) = 0
  /\ commandType' = 0
  /\ argv' = args /\ ret' = "main"
  /\ execLog' = Append(execLog, args)
  /\ pc' = "fork"
  /\ UNCHANGED << envVars, stdinEOF, fileVars, args, failed, written, hmcVars,
                  children, exitStatus >>

DispatchEmpty ==
  /\ pc = "processCommand" /\ getCommandType(args) = 0
  /\ commandType' = 0
  /\ BackToLoop
  /\ UNCHANGED << envVars, stdinEOF, fileVars, args, execLog, failed, written,
                  children, exitStatus >>

DispatchSimple ==
  /\ pc = "processCommand" /\ getCommandType(args) = 1
  /\ commandType' = 1
  /\ argv' = args /\ ret' = "main"
  /\ execLog' = Append(execLog, args)
  /\ pc' = "fork"
  /\ UNCHANGED << envVars, stdinEOF, fileVars, args, failed, written, hmcVars,
                  children, exitStatus >>

DispatchGroup ==
  /\ pc = "processCommand" /\ getCommandType(args) \in {2, 3}
  /\ commandType' = getCommandType(args)
  /\ delimiter' = IF getCommandType(args) = 2 THEN ";" ELSE "&&"
  /\ i' = 0 /\ j' = 0
  /\ \E g \in {NULL, GARBAGE} : commands' = UninitCommands(g)
  /\ pc' = "hmc"
  /\ UNCHANGED << envVars, stdinEOF, fileVars, args, execLog, failed, written,
                  argv, ret, children, exitStatus >>

\* Mutant of quitShell: the built-in returns to its caller instead of exiting.
quitShellReturns == BackToLoop /\ UNCHANGED << exitStatus, written >>

\* exit(0)
quitShell ==
  /\ pc' = "exited" /\ exitStatus' = 0
  /\ UNCHANGED << hmcVars, argv, ret, written >>

\* Mutant of displayAuthor: the identity block is printed and the shell ends.
displayAuthorExits ==
  /\ written' = written \cup {AUTHOR}
  /\ pc' = "exited" /\ exitStatus' = 0
  /\ UNCHANGED << hmcVars, argv, ret >>

\* printf of the identity block, then return
displayAuthor ==
  /\ written' = written \cup {AUTHOR}
  /\ BackToLoop /\ UNCHANGED exitStatus

executeBuiltinCommand(arg) ==
  IF arg = builtinCommands[1].name THEN quitShell
  ELSE IF arg = builtinCommands[2].name THEN displayAuthor
  ELSE /\ written' = written \cup {TERRIBLY_WRONG}
       /\ BackToLoop /\ UNCHANGED exitStatus

\* case 4 of the switch, and its default branch.
DispatchBuiltin ==
  /\ pc = "processCommand" /\ getCommandType(args) \notin 0..3
  /\ commandType' = getCommandType(args)
  /\ IF getCommandType(args) = 4
     THEN executeBuiltinCommand(At(args, 0))
     ELSE /\ written' = written \cup {UNRECOGNIZED}
          /\ BackToLoop /\ UNCHANGED exitStatus
  /\ UNCHANGED << envVars, stdinEOF, fileVars, args, execLog, failed, children >>

\* ------------------------------------------------- handleMultipleCommands
HmcReturn ==
  /\ pc = "hmc" /\ At(args, i) = NULL
  /\ BackToLoop
  /\ UNCHANGED << envVars, stdinEOF, fileVars, lineVars, children, exitStatus,
                  written >>

HmcCall ==
  /\ pc = "hmc" /\ At(args, i) # NULL
  /\ HmcIsCall(args, delimiter, i)
  /\ commands' = HmcTerminate(args, i, j, commands)
  /\ argv' = ArgVector(commands', 0) /\ ret' = "hmc"
  /\ execLog' = Append(execLog, argv')
  /\ pc' = "fork"
  /\ UNCHANGED << envVars, stdinEOF, fileVars, args, commandType, failed,
                  written, delimiter, i, j, children, exitStatus >>

HmcAccumulate ==
  /\ pc = "hmc" /\ At(args, i) # NULL
  /\ ~HmcIsCall(args, delimiter, i)
  /\ commands' = HmcAppend(args, i, j, commands)
  /\ j' = j + 1 /\ i' = i + 1
  /\ UNCHANGED << envVars, stdinEOF, fileVars, lineVars, delimiter, argv, ret,
                  children, exitStatus, pc, written >>

\* --------------------------------------------------------- executeCommand
\* executeCommand returns to its caller.
ReturnFromExecute ==
  IF ret = "hmc"
  THEN /\ pc' = "hmc" /\ j' = 0 /\ i' = i + 1
       /\ argv' = << >>
       /\ UNCHANGED << delimiter, commands, ret >>
  ELSE BackToLoop

\* fork() > 0 in the parent: the child starts as a copy of the shell.
ForkOk ==
  /\ pc = "fork"
  /\ children' = Append(children,
                        [st |-> "forked", argv |-> argv,
                         delta |-> rdPtr - bufEnd, status |-> 0,
                         killed |-> FALSE, ran |-> FALSE])
  /\ pc' = "wait"
  /\ UNCHANGED << envVars, stdinEOF, fileVars, lineVars, hmcVars, argv, ret,
                  exitStatus, written >>

\* Mutant of ForkFails: the failure branch ends the shell (perror, exit).
ForkFailsExits ==
  /\ pc = "fork"
  /\ failed' = TRUE
  /\ written' = written \cup {FORK_FAILED}
  /\ pc' = "exited" /\ exitStatus' = EXIT_FAILURE
  /\ UNCHANGED << envVars, stdinEOF, fileVars, args, commandType, execLog,
                  hmcVars, argv, ret, children >>

\* fork() < 0: perror, return.
ForkFails ==
  /\ pc = "fork"
  /\ failed' = TRUE
  /\ written' = written \cup {FORK_FAILED}
  /\ ReturnFromExecute
  /\ UNCHANGED << envVars, stdinEOF, fileVars, args, commandType, execLog,
                  children, exitStatus >>

Without(s, n) == [k \in 1..(Len(s) - 1) |-> IF k < n THEN s[k] ELSE s[k + 1]]

\* Mutant of Wait: the parent does not block for its child.
WaitNoHang ==
  /\ pc = "wait"
  /\ ReturnFromExecute
  /\ UNCHANGED << envVars, stdinEOF, fileVars, lineVars, exitStatus, children,
                  written >>

\* wait(NULL): blocks until a child has terminated, and reaps it; returns at
\* once when there is no child.
Wait ==
  /\ pc = "wait"
  /\ \/ /\ children = << >>
        /\ UNCHANGED children
     \/ \E n \in 1..Len(children) :
          /\ children[n].st = "zombie"
          /\ children' = Without(children, n)
  /\ ReturnFromExecute
  /\ UNCHANGED << envVars, stdinEOF, fileVars, lineVars, exitStatus, written >>

\* ------------------------------------------------------------ the children
shellVars == << envVars, stdinEOF, nLines, bufEnd, rdPtr, deliveries, inOrder,
                args, commandType, execLog, written, hmcVars, argv, ret, exitStatus,
                pc >>

\* execvp succeeds: the child is the target program from now on.
ChildExecOk(n) ==
  /\ children[n].st = "forked"
  /\ children[n].argv # << >>
  /\ children' = [children EXCEPT ![n].st = "running", ![n].ran = TRUE]
  /\ UNCHANGED << shellVars, fdOff, failed >>

\* exit() in a child flushes its copy of the shell's streams: for the batch
\* file, a stream with unread buffered input, that moves the offset of the
\* open file description, which the shell shares, back by the unread amount
\* (an lseek relative to the current offset; it fails below offset 0).
ExitFlush(c) ==
  IF Batch /\ c.delta # 0 /\ fdOff + c.delta >= 0
  THEN fdOff + c.delta
  ELSE fdOff

\* execvp returns -1: perror, exit(EXIT_FAILURE).
ChildExecFails(n) ==
  /\ children[n].st = "forked"
  /\ children' = [children EXCEPT ![n].st = "zombie",
                                  ![n].status = EXIT_FAILURE]
  /\ fdOff' = ExitFlush(children[n])
  /\ failed' = TRUE
  /\ UNCHANGED shellVars

\* execvp(NULL, ...) : the child may be killed by a signal instead.
ChildCrash(n) ==
  /\ children[n].st = "forked"
  /\ children[n].argv = << >>
  /\ children' = [children EXCEPT ![n].st = "zombie", ![n].killed = TRUE]
  /\ failed' = TRUE
  /\ UNCHANGED << shellVars, fdOff >>

\* The target program ends, with some status.
ChildExit(n) ==
  /\ children[n].st = "running"
  /\ \E s \in {0, EXIT_FAILURE} :
       children' = [children EXCEPT ![n].st = "zombie", ![n].status = s]
  /\ UNCHANGED << shellVars, fdOff, failed >>

\* ------------------------------------------------------------------- Next
Next ==
  \/ MainInteractive \/ MainBatch \/ MainUsage
  \/ Prompt \/ InteractiveRead \/ InteractiveReadFails
  \/ BatchRead \/ BatchEOF \/ processInput
  \/ DispatchEmpty \/ DispatchSimple \/ DispatchGroup \/ DispatchBuiltin
  \/ HmcReturn \/ HmcCall \/ HmcAccumulate
  \/ ForkOk \/ ForkFails \/ Wait
  \/ \E n \in 1..Len(children) : ChildExecOk(n)
  \/ \E n \in 1..Len(children) : ChildExecFails(n)
  \/ \E n \in 1..Len(children) : ChildCrash(n)
  \/ \E n \in 1..Len(children) : ChildExit(n)

Spec == Init /\ [][Next]_vars

(***************************************************************************)
(* The batch loop again, with the input taken character by character: what *)
(* fgets puts into line, what processInput makes of it in args, and how    *)
(* often processCommand is called.  What processCommand does with the      *)
(* tokens is the subject of the specification above and left out here.     *)
(***************************************************************************)
Blanks == {" ", "\t", "\n"}      \* the delimiter set given to strtok
Chars == {"a"} \cup Blanks

Repeat(c, n) == [k \in 1..n |-> c]

Least(S) == CHOOSE x \in S : \A y \in S : x <= y

\* A line of n one-letter tokens with single spaces between them.
TokenLine(n) ==
  [k \in 1..(2 * n) |->
     IF k = 2 * n THEN "\n" ELSE IF k % 2 = 1 THEN "a" ELSE " "]

SmallTexts == UNION {[1..n -> Chars] : n \in 0..MaxChars}

\* Files whose first line has about as many tokens as args has slots.
ManyTokenTexts ==
  {TokenLine(n) \o << "a", "\n" >> :
     n \in (MAX_NUM_CMDS - MaxOver)..(MAX_NUM_CMDS + MaxOver)}

\* Files whose first line is about as long as the buffer line.
LongLineTexts ==
  {Repeat("a", n) \o << "\n", "a", "\n" >> :
     n \in (MAX_CMD_LENGTH - 1 - MaxOver)..(MAX_CMD_LENGTH - 1 + MaxOver)}

InputTexts == SmallTexts \cup ManyTokenTexts \cup LongLineTexts

\* A slot of args: the null pointer, or a pointer to a token's characters.
NullPtr == << >>
Ptr(token) == << token >>

\* char *args[MAX_NUM_CMDS] of main, before the first processInput.
UninitArgs(g) == [k \in 1..MAX_NUM_CMDS |-> g]

\* The number of characters fgets(line, MAX_CMD_LENGTH, file) stores, from file
\* position p on: it stops after a newline, at end of file, or when
\* MAX_CMD_LENGTH - 1 characters are stored.
fgetsCount(t, p) ==
  LET room == Least({MAX_CMD_LENGTH - 1, Len(t) - p})
      newlines == {n \in 1..room : t[p + n] = "\n"}
  IN IF newlines = {} THEN room ELSE Least(newlines)

\* strtok: skip delimiters from position k on, then scan to the next one.
SkipDelimiters(s, k) ==
  Least({m \in k..Len(s) : s[m] \notin Blanks} \cup {Len(s) + 1})

ScanToken(s, k) ==
  Least({m \in k..Len(s) : s[m] \in Blanks} \cup {Len(s) + 1})

\* The tokens the strtok calls of processInput return, from position k on.
RECURSIVE strtok(_, _)
strtok(s, k) ==
  LET b == SkipDelimiters(s, k)
      e == ScanToken(s, b)
  IN IF b > Len(s) THEN << >>
     ELSE << SubSeq(s, b, e - 1) >> \o strtok(s, e + 1)

\* What a reader of args finds from slot k on, up to the null pointer.
RECURSIVE VectorFrom(_, _)
VectorFrom(mem, k) ==
  IF k > Len(mem) \/ mem[k] = NullPtr THEN << >>
  ELSE << mem[k][1] >> \o VectorFrom(mem, k + 1)

\* Writing at args[MAX_NUM_CMDS] and beyond is outside the array args: the
\* write lands in whatever lies next to it on main's stack.  The tokens a
\* reader then finds may be the ones parsed, or tokens whose characters the
\* write has overwritten (args lies right below line in the build observed).
Overwritten(toks) ==
  { toks,
    [k \in 1..Len(toks) |-> IF k = 1 THEN << >> ELSE toks[k]],
    [k \in 1..Len(toks) |-> << "?" >>] }

shellOnly == << argc, fileOpens, stdinEOF, fileVars, lineVars, hmcVars, argv,
               ret, children, written >>

InitInput ==
  /\ argc = 2 /\ fileOpens = TRUE
  /\ nLines = 0 /\ fdOff = 0 /\ bufEnd = 0 /\ rdPtr = 0
  /\ pc = "fgets"
  /\ stdinEOF = FALSE
  /\ args = << >> /\ commandType = NoType
  /\ delimiter = NULL /\ i = 0 /\ j = 0 /\ commands = NoCommands
  /\ argv = << >> /\ ret = "main"
  /\ children = << >> /\ exitStatus = 0
  /\ execLog = << >> /\ failed = FALSE /\ written = {}
  /\ deliveries = 0 /\ inOrder = TRUE
  /\ text \in InputTexts
  /\ pos = 0 /\ line = << >>
  /\ \E g \in {NullPtr, Ptr(<< "?" >>)} : argsMem = UninitArgs(g)
  /\ seen = << >> /\ argsTop = 0 /\ calls = 0

\* fgets delivers: the next characters of the file are in line.
fgets ==
  /\ pc = "fgets" /\ pos < Len(text)
  /\ LET n == fgetsCount(text, pos)
     IN /\ line' = SubSeq(text, pos + 1, pos + n)
        /\ pos' = pos + n
  /\ pc' = "processInput"
  /\ UNCHANGED << shellOnly, text, argsMem, seen, argsTop, calls, exitStatus >>

\* fgets returns NULL at end of file: fclose, return 0.
fgetsNull ==
  /\ pc = "fgets" /\ pos >= Len(text)
  /\ pc' = "exited" /\ exitStatus' = 0
  /\ UNCHANGED << shellOnly, inputVars >>

\* processInput on the characters of line: args[j++] = token for each token
\* strtok returns, then args[j] = NULL, with no check of j.
processInputChars ==
  /\ pc = "processInput"
  /\ LET toks == strtok(line, 1)
         n == Len(toks)
     IN /\ argsTop' = n
        /\ IF n < MAX_NUM_CMDS
           THEN /\ argsMem' = [k \in 1..MAX_NUM_CMDS |->
                                 IF k <= n THEN Ptr(toks[k])
                                 ELSE IF k = n + 1 THEN NullPtr
                                 ELSE argsMem[k]]
                /\ seen' = VectorFrom(argsMem', 1)
                /\ pc' = "processCommand"
           ELSE /\ argsMem' = [k \in 1..MAX_NUM_CMDS |-> Ptr(toks[k])]
                /\ seen' \in Overwritten(toks)
                /\ pc' \in {"processCommand", "crashed"}
  /\ UNCHANGED << shellOnly, text, pos, line, calls, exitStatus >>

\* processCommand(args) is called and returns.
processCommandCalled ==
  /\ pc = "processCommand"
  /\ calls' = calls + 1
  /\ pc' = "fgets"
  /\ UNCHANGED << shellOnly, text, pos, line, argsMem, seen, argsTop,
                  exitStatus >>

NextInput == fgets \/ fgetsNull \/ processInputChars \/ processCommandCalled

SpecInput == InitInput /\ [][NextInput]_vars

\* ------------------------------------------------------------------ claims
\* A line has been processed and main is back at the top of its loop.
LineDone == pc = LoopHead /\ commandType # NoType

DelimiterOf(t) == IF t = 2 THEN ";" ELSE "&&"

\* The groups of a token sequence: its maximal runs of tokens between
\* occurrences of d, the empty runs left out.
RECURSIVE GroupsFrom(_, _, _)
GroupsFrom(s, d, cur) ==
  IF s = << >> THEN (IF cur = << >> THEN << >> ELSE << cur >>)
  ELSE IF Head(s) = d
       THEN (IF cur = << >> THEN << >> ELSE << cur >>) \o GroupsFrom(Tail(s), d, << >>)
       ELSE GroupsFrom(Tail(s), d, Append(cur, Head(s)))

NonEmptyGroups(s, d) == GroupsFrom(s, d, << >>)

\* C1: once handleMultipleCommands has processed a line, executeCommand was
\* invoked exactly once per non-empty group, in order, each time with exactly
\* the tokens of that group.
C1_OneCallPerGroup ==
  (LineDone /\ commandType \in {2, 3})
    => execLog = NonEmptyGroups(args, DelimiterOf(commandType))

\* C2: the vector executeCommand is called with holds neither ";" nor "&&".
C2_NoDelimiterInVector ==
  pc = "fork" => \A k \in 1..Len(argv) : argv[k] \notin Delimiters

\* C3: executeCommand is never called with an empty vector, and no child is
\* created for one.
C3_NoEmptyVector ==
  /\ pc = "fork" => argv # << >>
  /\ \A n \in 1..Len(children) : children[n].argv # << >>

\* C4: at most one child is alive or unreaped at any moment, and
\* executeCommand returns from wait only by reaping its child, which has
\* terminated; so a child is only ever created when none is outstanding.
C4_OneChildAtATime ==
  /\ [](Len(children) <= 1)
  /\ [][(pc = "wait" /\ pc' # "wait")
          => (/\ children # << >>
              /\ children[1].st = "zombie"
              /\ children' = << >>)]_vars
  /\ [][Len(children') > Len(children) => children = << >>]_vars

\* The child of a second group exists; the first group's child is gone.
C4_Witness ==
  /\ ret = "hmc" /\ Len(execLog) >= 2
  /\ Len(children) = 1 /\ children[1].st = "running"

\* The ways main ends: the usage path, the quit built-in, the end of the
\* batch file.
ExitedByUsage == ~Interactive /\ ~Batch
ExitedByQuit == args = << "quit" >> /\ commandType = 4
ExitedByEOF == Batch /\ rdPtr >= bufEnd /\ fdOff >= nLines

\* C5: a fork failure or an exec failure never ends the shell: executeCommand
\* returns to its caller, which goes on with the next group or the next
\* line, and the shell is only ever ended by quit, by the end of the batch
\* file or by the usage path, with status 0.
C5_FailuresDoNotEndTheShell ==
  /\ [](pc = "exited"
          => (exitStatus = 0 /\ (ExitedByUsage \/ ExitedByQuit \/ ExitedByEOF)))
  /\ [][(pc \in {"fork", "wait"} /\ pc' \notin {"fork", "wait"})
          => IF ret = "hmc"
             THEN pc' = "hmc" /\ i' = i + 1 /\ args' = args
             ELSE pc' = LoopHead]_vars

\* After a failure in an earlier group the next group is being executed.
C5_Witness == failed /\ pc = "fork" /\ Len(execLog) >= 2 /\ children = << >>

\* C6: processing the line [quit] ends the shell at once with status 0,
\* creating no child, and an ended shell takes no further step.
C6_QuitEndsTheShell ==
  [][/\ (pc = "processCommand" /\ args = << "quit" >>)
          => (/\ pc' = "exited" /\ exitStatus' = 0
              /\ children' = << >> /\ execLog' = << >>
              /\ UNCHANGED << args, fileVars >>)
     /\ pc # "exited"]_vars

\* quit ended a batch run while lines were still unread.
C6_Witness ==
  /\ pc = "exited" /\ args = << "quit" >> /\ exitStatus = 0
  /\ Batch /\ rdPtr < bufEnd

\* C7: a batch run that ends by reaching the end of the file ends with
\* status 0 having processed each of the N lines once, in file order.
C7_BatchProcessesEachLineOnce ==
  (Batch /\ pc = "exited" /\ args # << "quit" >>)
    => (exitStatus = 0 /\ deliveries = nLines /\ inOrder)

\* C8: in interactive mode a failed read leads back to the prompt and
\* dispatches nothing; after end-of-input the loop only prompts and reads;
\* and the interactive shell is only ever ended by the quit built-in.
C8_FailedReadReprompts ==
  /\ [][(Interactive /\ pc = "fgets" /\ pc' # "processInput")
          => (/\ pc' = "prompt"
              /\ UNCHANGED << args, commandType, execLog, children, exitStatus >>)]_vars
  /\ [][stdinEOF => (stdinEOF' /\ pc' \in {"prompt", "fgets"})]_vars
  /\ [](Interactive /\ pc = "exited" => ExitedByQuit)

\* End-of-input was seen and the loop is prompting again.
C8_Witness == Interactive /\ stdinEOF /\ pc = "prompt"

WithSemicolons(a) == [k \in 1..Len(a) |-> IF a[k] = "&&" THEN ";" ELSE a[k]]

\* C9: the invocations of executeCommand for an "&&" line are those of the
\* same line with every "&&" replaced by ";", whatever the children did.
C9_ConditionalAsSequential ==
  (LineDone /\ commandType = 3)
    => \E g \in {NULL, GARBAGE} :
         execLog = SplitterCalls(WithSemicolons(args), ";", 0, 0, UninitCommands(g))

\* The reference classifier: by the position of the first delimiter token.
ReferenceType(s) ==
  IF s = << >> THEN 0
  ELSE IF Len(s) = 1 /\ s[1] \in {"quit", "author"} THEN 4
  ELSE LET D == {k \in 1..Len(s) : s[k] \in Delimiters}
       IN IF D = {} THEN 1
          ELSE LET first == CHOOSE k \in D : \A m \in D : k <= m
               IN IF s[first] = "&&" THEN 3 ELSE 2

BadCommandLine == argc > 2 \/ (argc = 2 /\ ~fileOpens)

C11_UsageAndNothingElse ==
  BadCommandLine =>
    /\ pc \in {"main", "exited"}
    /\ pc = "exited" => (exitStatus = 0 /\ written = {USAGE})
    /\ pc = "main" => written = {}
    /\ deliveries = 0 /\ rdPtr = 0 /\ fdOff = 0
    /\ args = << >> /\ commandType = NoType
    /\ execLog = << >> /\ children = << >> /\ ~failed

C11_Witness ==
  /\ argc = 2 /\ ~fileOpens
  /\ pc = "exited" /\ exitStatus = 0 /\ written = {USAGE}

\* The maximal substrings of s that hold no space, tab or newline, from left
\* to right.
TokenStarts(s) ==
  {b \in 1..Len(s) : s[b] \notin Blanks /\ (b = 1 \/ s[b - 1] \in Blanks)}

TokenEnds(s) ==
  {e \in 1..Len(s) : s[e] \notin Blanks /\ (e = Len(s) \/ s[e + 1] \in Blanks)}

RECURSIVE Ascending(_)
Ascending(S) ==
  IF S = {} THEN << >> ELSE << Least(S) >> \o Ascending(S \ {Least(S)})

MaximalSubstrings(s) ==
  LET bs == Ascending(TokenStarts(s))
      es == Ascending(TokenEnds(s))
  IN [k \in 1..Len(bs) |-> SubSeq(s, bs[k], es[k])]

\* C12: processInput yields, for a line, exactly the ordered sequence of its
\* maximal substrings without space, tab or newline, NULL-terminated; every
\* token is non-empty; the result does not depend on what the previous line
\* left in args.
C12_TokensAreMaximalSubstrings ==
  pc = "processCommand" =>
    /\ seen = MaximalSubstrings(line)
    /\ \A k \in 1..Len(seen) : seen[k] # << >>
    /\ seen = VectorFrom(argsMem, 1)

\* C13: processing a line made only of spaces, tabs and newlines (or a
\* zero-length line) is a no-op: the tokenizer yields the empty sequence, the
\* line is classified Empty, no child is created, no built-in runs, nothing
\* is written, and the shell proceeds to the next line.
BlankLines == {s \in SmallTexts : \A k \in 1..Len(s) : s[k] \in Blanks}

C13_BlankLineIsNoOp ==
  /\ [](pc = "main" => \A s \in BlankLines : strtok(s, 1) = << >>)
  /\ [][(pc = "processCommand" /\ args = << >>)
          => /\ commandType' = 0
             /\ pc' = LoopHead
             /\ children = << >>
             /\ UNCHANGED << children, written, execLog, failed, exitStatus,
                             args, fileVars, stdinEOF >>]_vars

C13_Witness ==
  /\ pc = LoopHead /\ commandType = 0 /\ args = << >>
  /\ written = {} /\ children = << >> /\ execLog = << >>

\* C14: processing the line [author] writes the identity block, with
\* 'giannis-mel' and 'meleziadisgiannis@gmail.com' in it, creates no child,
\* does not end the shell, and the shell goes on to the next line.
C14_AuthorWritesIdentity ==
  /\ [](pc = "main" => /\ \E k \in 1..Len(AUTHOR) : AUTHOR[k] = "giannis-mel"
                       /\ \E k \in 1..Len(AUTHOR) :
                            AUTHOR[k] = "meleziadisgiannis@gmail.com")
  /\ [][(pc = "processCommand" /\ args = << "author" >>)
          => /\ AUTHOR \in written'
             /\ pc' = LoopHead
             /\ children = << >>
             /\ UNCHANGED << children, execLog, failed, exitStatus, args,
                             fileVars, stdinEOF >>]_vars

C14_Witness ==
  /\ Interactive /\ pc = LoopHead /\ args = << "author" >>
  /\ written = {AUTHOR} /\ children = << >>

\* The built-in action of a line has run: the shell was ended by quit, or
\* the identity block was written.
BuiltinRan == commandType = 4 \/ AUTHOR \in written

Occurs(x, v) == \E k \in 1..Len(v) : v[k] = x

\* C15, as stated: a built-in action runs only for a line that is exactly one
\* token equal to a built-in name, and in a line of two or more tokens every
\* token equal to a built-in name is passed to executeCommand as a program
\* name (the first element of a vector); such a line never ends the shell.
C15_BuiltinNameIsProgramName ==
  /\ BuiltinRan => (Len(args) = 1 /\ isBuiltin(args[1]))
  /\ (pc = "exited" /\ Len(args) >= 2) => ExitedByEOF
  /\ (LineDone /\ Len(args) >= 2) =>
       \A k \in 1..Len(args) :
         isBuiltin(args[k]) =>
           /\ \E n \in 1..Len(execLog) : At(execLog[n], 0) = args[k]
           /\ \A n \in 1..Len(execLog) :
                \A m \in 2..Len(execLog[n]) : execLog[n][m] # args[k]

\* C15, amended: a built-in action runs only for a line that is exactly one
\* token equal to a built-in name; in a line of two or more tokens every
\* token equal to a built-in name is handed to executeCommand inside an
\* argument vector, as the program name or as one of its arguments, and such
\* a line never ends the shell.
C15_BuiltinNameIsExternal ==
  /\ BuiltinRan => (Len(args) = 1 /\ isBuiltin(args[1]))
  /\ (pc = "exited" /\ Len(args) >= 2) => ExitedByEOF
  /\ (LineDone /\ Len(args) >= 2) =>
       /\ commandType \in 1..3
       /\ \A k \in 1..Len(args) :
            isBuiltin(args[k]) =>
              \E n \in 1..Len(execLog) : Occurs(args[k], execLog[n])

C15_Witness ==
  /\ Interactive /\ LineDone /\ args = << "ls", "&&", "quit" >>
  /\ execLog = << << "ls" >>, << "quit" >> >>

\* C16: a child created by executeCommand never gets back into the shell's
\* code: it becomes the target program, or it exits with a non-zero status.
C16_ChildExecsOrExitsNonZero ==
  \A n \in 1..Len(children) :
    /\ children[n].st \in {"forked", "running", "zombie"}
    /\ (children[n].st = "zombie" /\ ~children[n].ran)
         => (~children[n].killed /\ children[n].status # 0)

\* C17: for every line fgets can deliver, processInput writes args[j] only
\* for j < MAX_NUM_CMDS, the NULL terminator included (and so
\* handleMultipleCommands, whose index never passes that of args, writes
\* commands[j] only for j < MAX_NUM_CMDS).
C17_WriteIndexInCapacity ==
  /\ Len(line) <= MAX_CMD_LENGTH - 1
  /\ argsTop < MAX_NUM_CMDS

\* The lines of a text: its newline-terminated lines, and the unterminated
\* rest after the last newline when there is one.
LineCount(t) ==
  Cardinality({k \in 1..Len(t) : t[k] = "\n"})
    + (IF t # << >> /\ t[Len(t)] # "\n" THEN 1 ELSE 0)

\* C18: every line of the input yields exactly one tokenize-and-dispatch
\* step, whatever its length: a batch file of N lines causes exactly N calls
\* of processCommand, and what processInput is given is never a piece of a
\* line cut by the limit MAX_CMD_LENGTH.
C18_OneDispatchPerLine ==
  /\ pc = "exited" => calls = LineCount(text)
  /\ pc = "processInput" =>
       \/ line[Len(line)] = "\n"
       \/ pos = Len(text)

\* C19: the defensive branches are unreachable: executeBuiltinCommand is
\* called only with a name of the built-in table, so 'Something is terribly
\* wrong' is never written, and getCommandType returns only values in 0..4,
\* so the default branch of processCommand, with 'Unrecognized command
\* type', is never taken.
C19_DefensiveBranchesUnreachable ==
  /\ TERRIBLY_WRONG \notin written
  /\ UNRECOGNIZED \notin written
  /\ commandType \in {NoType} \cup 0..4
  /\ pc = "processCommand" =>
       /\ getCommandType(args) \in 0..4
       /\ getCommandType(args) = 4 =>
            \E k \in 1..numOfBuiltinCommands :
              At(args, 0) = builtinCommands[k].name

C19_Witness ==
  /\ Batch /\ pc = LoopHead /\ commandType = 4
  /\ args = << "author" >> /\ written = {AUTHOR}

====
